---- MODULE Spec2Model ----
(***************************************************************************)
(* Model of 01_clean_data.py: a tabular cleaning pipeline                   *)
(*   load_raw_data -> handle_missing_values -> remove_duplicates ->         *)
(*   standardize_column_names -> save_clean_data                            *)
(* A table is a record [names, kinds, rows]; names are sequences of         *)
(* one-character strings, kinds are the pandas dtype families "number" and  *)
(* "object", rows are sequences of cells.  Numeric cells hold their value   *)
(* in halves (Num(6) is 3.0), so that the median of two integers is exact.  *)
(***************************************************************************)
EXTENDS Integers, Sequences, FiniteSets, TLC

VARIABLES
    pc,     \* position of the caller: "start", the last stage completed, or "failed"
    path,   \* the input path handed to load_raw_data: [name, exists]
    src,    \* the table stored in the input file
    df,     \* the table bound to the caller's variable df
    pre,    \* the table object passed to the last stage, as it was at the call
    arg,    \* that same object, as it is when the stage returned or raised
    cfg,    \* col_strategies passed to the last handle_missing_values
    err,    \* the exception that reached the caller, or "none"
    trace,  \* the stages started so far, in order
    disk    \* the table written to the output file, or NoTable

vars == <<pc, path, src, df, pre, arg, cfg, err, trace, disk>>

-----------------------------------------------------------------------------
\* Bounds of the model
MaxRows == 3
MaxNameLen == 3

-----------------------------------------------------------------------------
\* Cells
NaN == [t |-> "nan", n |-> 0, s |-> ""]
Num(h) == [t |-> "num", n |-> h, s |-> ""]
Str(x) == [t |-> "str", n |-> 0, s |-> x]
IsNa(c) == c.t = "nan"

\* Column names used by main's configuration, and one more
ScoreCol == <<"k", "o", "i", "_", "s", "c", "o", "r", "e">>
NameCol == <<"k", "e", "p", "l", "e", "r", "_", "n", "a", "m", "e">>
OtherCol == <<"r", "a">>

NoTable == [names |-> <<>>, kinds |-> <<>>, rows |-> <<>>]

\* Python's ordering of the text values of the model
TextOrder == <<"A", "B", "Unknown", "Z">>
Rank(x) == CHOOSE i \in 1..Len(TextOrder) : TextOrder[i] = x

-----------------------------------------------------------------------------
\* Table helpers
NCols(t) == Len(t.names)
HasCol(t, name) == \E i \in 1..Len(t.names) : t.names[i] = name
ColIndex(t, name) == CHOOSE i \in 1..Len(t.names) : t.names[i] = name
Column(t, i) == [r \in 1..Len(t.rows) |-> t.rows[r][i]]
NotNa(c) == ~IsNa(c)
Present(t, i) == SelectSeq(Column(t, i), NotNa)

\* df[df[col].notna()]
DropRows(t, i) == [t EXCEPT !.rows = SelectSeq(t.rows, LAMBDA r : ~IsNa(r[i]))]

\* df[col] = df[col].fillna(v); filling text into a float column makes it object
Fillna(t, i, v) ==
    LET hit == \E r \in 1..Len(t.rows) : IsNa(t.rows[r][i])
    IN [t EXCEPT
          !.rows = [r \in 1..Len(t.rows) |->
                       [t.rows[r] EXCEPT ![i] = IF IsNa(@) THEN v ELSE @]],
          !.kinds = [t.kinds EXCEPT ![i] =
                       IF hit /\ v.t = "str" THEN "object" ELSE @]]

-----------------------------------------------------------------------------
\* Median with the lower middle value taken for an even count
MedianLowerMiddle(vals) ==
    LET n == Len(vals)
        s == SortSeq(vals, LAMBDA a, b : a.n < b.n)
    IN IF n = 0 THEN NaN ELSE s[(n + 1) \div 2]

\* Series.median(): NaN for no present value, the middle value, or the mean
\* of the two middle values (cells hold halves, the inputs are whole numbers)
Median(vals) ==
    LET n == Len(vals)
        s == SortSeq(vals, LAMBDA a, b : a.n < b.n)
    IN IF n = 0 THEN NaN
       ELSE IF n % 2 = 1 THEN s[(n + 1) \div 2]
       ELSE Num((s[n \div 2].n + s[n \div 2 + 1].n) \div 2)

Count(vals, v) == Len(SelectSeq(vals, LAMBDA c : c = v))

RECURSIVE SortedText(_)
SortedText(S) ==
    IF S = {} THEN <<>>
    ELSE LET m == CHOOSE x \in S : \A y \in S : Rank(x.s) <= Rank(y.s)
         IN <<m>> \o SortedText(S \ {m})

\* ModeSeries without the frequency count: every present value, sorted
ModeSeriesAllValues(vals) == SortedText({vals[i] : i \in 1..Len(vals)})

\* Series.mode(): the most frequent present values, sorted; empty for none
ModeSeries(vals) ==
    LET vs == {vals[i] : i \in 1..Len(vals)}
        top == {v \in vs : \A w \in vs : Count(vals, w) <= Count(vals, v)}
    IN SortedText(top)

-----------------------------------------------------------------------------
\* handle_missing_values.  The running state of a call is
\*   [df, caller, aliased, raised]: the local df, the caller's table object,
\*   whether df still is that object, and whether an exception is in flight.
NoStrategy == "<absent>"
Recognized == {"drop_rows", "fill_with_value", "unknown_category"}
InCfg(c, name) == \E k \in 1..Len(c) : c[k].col = name

\* df[col] = ... : item assignment on the object df refers to
Assign(st, t) == [st EXCEPT !.df = t, !.caller = IF st.aliased THEN t ELSE @]

\* ApplyStrategy with the unknown_category branch lost
ApplyStrategyNoUnknown(st, e, strict) ==
    IF st.raised \/ ~HasCol(st.df, e.col) THEN st
    ELSE LET i == ColIndex(st.df, e.col) IN
         IF e.strategy = "drop_rows"
           THEN [st EXCEPT !.df = DropRows(st.df, i), !.aliased = FALSE]
         ELSE IF e.strategy = "fill_with_value"
           THEN IF IsNa(e.value) /\ strict
                  THEN [st EXCEPT !.raised = TRUE]
                  ELSE Assign(st, Fillna(st.df, i, e.value))
         ELSE st

\* ApplyStrategy with a final else that raises on any other strategy
ApplyStrategyRaising(st, e, strict) ==
    IF st.raised \/ ~HasCol(st.df, e.col) THEN st
    ELSE LET i == ColIndex(st.df, e.col) IN
         IF e.strategy = "drop_rows"
           THEN [st EXCEPT !.df = DropRows(st.df, i), !.aliased = FALSE]
         ELSE IF e.strategy = "fill_with_value"
           THEN IF IsNa(e.value) /\ strict
                  THEN [st EXCEPT !.raised = TRUE]
                  ELSE Assign(st, Fillna(st.df, i, e.value))
         ELSE IF e.strategy = "unknown_category"
           THEN Assign(st, Fillna(st.df, i, Str("Unknown")))
         ELSE [st EXCEPT !.raised = TRUE]

\* One iteration of the loop over col_strategies.items().  value = NaN is
\* cfg.get("value") returning None; strict tells whether this pandas build
\* rejects fillna(None) with "Must specify a fill 'value'" or fills nothing.
ApplyStrategy(st, e, strict) ==
    IF st.raised \/ ~HasCol(st.df, e.col) THEN st
    ELSE LET i == ColIndex(st.df, e.col) IN
         IF e.strategy = "drop_rows"
           THEN [st EXCEPT !.df = DropRows(st.df, i), !.aliased = FALSE]
         ELSE IF e.strategy = "fill_with_value"
           THEN IF IsNa(e.value) /\ strict
                  THEN [st EXCEPT !.raised = TRUE]
                  ELSE Assign(st, Fillna(st.df, i, e.value))
         ELSE IF e.strategy = "unknown_category"
           THEN Assign(st, Fillna(st.df, i, Str("Unknown")))
         ELSE st

RECURSIVE ColumnStrategies(_, _, _, _)
ColumnStrategies(st, c, k, strict) ==
    IF k > Len(c) THEN st
    ELSE ColumnStrategies(ApplyStrategy(st, c[k], strict), c, k + 1, strict)

\* for col in numeric_cols: skip configured columns, fill with the median
FillMedian(st, c, i) ==
    IF st.df.kinds[i] # "number" \/ InCfg(c, st.df.names[i]) THEN st
    ELSE Assign(st, Fillna(st.df, i, Median(Present(st.df, i))))

\* for col in non_numeric_cols: skip configured columns, fill with mode[0]
FillMode(st, c, i) ==
    IF st.df.kinds[i] = "number" \/ InCfg(c, st.df.names[i]) THEN st
    ELSE LET mode_series == ModeSeries(Present(st.df, i))
         IN IF mode_series = <<>> THEN st
            ELSE Assign(st, Fillna(st.df, i, mode_series[1]))

RECURSIVE NumericDefaults(_, _, _)
NumericDefaults(st, c, i) ==
    IF i > NCols(st.df) THEN st
    ELSE NumericDefaults(FillMedian(st, c, i), c, i + 1)

RECURSIVE NonNumericDefaults(_, _, _)
NonNumericDefaults(st, c, i) ==
    IF i > NCols(st.df) THEN st
    ELSE NonNumericDefaults(FillMode(st, c, i), c, i + 1)

\* The whole call: [raised, out, caller]
HandleMissingValues(t, c, strict) ==
    LET st0 == [df |-> t, caller |-> t, aliased |-> TRUE, raised |-> FALSE]
        st1 == ColumnStrategies(st0, c, 1, strict)
        st2 == NumericDefaults(st1, c, 1)
        st3 == NonNumericDefaults(st2, c, 1)
    IN IF st1.raised
         THEN [raised |-> TRUE, out |-> NoTable, caller |-> st1.caller]
         ELSE [raised |-> FALSE, out |-> st3.df, caller |-> st3.caller]

-----------------------------------------------------------------------------
\* remove_duplicates: DataFrame.drop_duplicates() keeps the first occurrence
\* of each row; missing cells compare equal to each other
RECURSIVE DropDuplicates(_, _)
DropDuplicates(rows, k) ==
    IF k > Len(rows) THEN <<>>
    ELSE (IF \E j \in 1..(k - 1) : rows[j] = rows[k] THEN <<>> ELSE <<rows[k]>>)
         \o DropDuplicates(rows, k + 1)

\* drop_duplicates(keep="last")
RECURSIVE KeepLast(_, _)
KeepLast(rows, k) ==
    IF k > Len(rows) THEN <<>>
    ELSE (IF \E j \in (k + 1)..Len(rows) : rows[j] = rows[k] THEN <<>> ELSE <<rows[k]>>)
         \o KeepLast(rows, k + 1)

RemoveDuplicatesKeepLast(t) == [t EXCEPT !.rows = KeepLast(t.rows, 1)]

RemoveDuplicates(t) == [t EXCEPT !.rows = DropDuplicates(t.rows, 1)]

-----------------------------------------------------------------------------
\* standardize_column_names: str.strip().str.lower().str.replace(" ", "_")
Whitespace == {" ", "\t"}
UpperCase == <<"A", "B", "C", "E", "S", "T", "V", "X">>
LowerCase == <<"a", "b", "c", "e", "s", "t", "v", "x">>

LowerChar(ch) ==
    IF \E i \in 1..Len(UpperCase) : UpperCase[i] = ch
      THEN LowerCase[CHOOSE i \in 1..Len(UpperCase) : UpperCase[i] = ch]
      ELSE ch

Lower(name) == [i \in 1..Len(name) |-> LowerChar(name[i])]

RECURSIVE LStrip(_)
LStrip(name) ==
    IF name # <<>> /\ Head(name) \in Whitespace THEN LStrip(Tail(name)) ELSE name

RECURSIVE RStrip(_)
RStrip(name) ==
    IF name # <<>> /\ name[Len(name)] \in Whitespace
      THEN RStrip(SubSeq(name, 1, Len(name) - 1))
      ELSE name

\* str.lstrip() in the place of str.strip()
StripLeft(name) == LStrip(name)

Strip(name) == RStrip(LStrip(name))

Replace(name) == [i \in 1..Len(name) |-> IF name[i] = " " THEN "_" ELSE name[i]]

StandardizeName(name) == Replace(Lower(Strip(name)))

StandardizeColumnNames(t) ==
    [t EXCEPT !.names = [i \in 1..Len(t.names) |-> StandardizeName(t.names[i])]]

-----------------------------------------------------------------------------
\* load_raw_data: Path.suffix is the last dot of the file name onwards, when
\* that dot is neither the first nor the last character
LastDot(name) ==
    IF \E i \in 1..Len(name) : name[i] = "."
      THEN CHOOSE i \in 1..Len(name) :
               name[i] = "." /\ \A j \in (i + 1)..Len(name) : name[j] # "."
      ELSE 0

Suffix(name) ==
    LET i == LastDot(name)
    IN IF 1 < i /\ i < Len(name) THEN SubSeq(name, i, Len(name)) ELSE <<>>

CsvSuffix == <<".", "c", "s", "v">>

\* LoadOutcome comparing the suffix as it is spelt
LoadOutcomeCaseSensitive(p, t) ==
    IF ~p.exists THEN "FileNotFoundError"
    ELSE IF Suffix(p.name) = CsvSuffix
           THEN IF t = NoTable THEN "EmptyDataError" ELSE "table"
    ELSE "ValueError"

\* "table", or the name of the exception raised
LoadOutcome(p, t) ==
    IF ~p.exists THEN "FileNotFoundError"
    ELSE IF Lower(Suffix(p.name)) = CsvSuffix
           THEN IF t = NoTable THEN "EmptyDataError" ELSE "table"
    ELSE "ValueError"

-----------------------------------------------------------------------------
\* Inputs
SeqsUpTo(S, n) == UNION {[1..k -> S] : k \in 0..n}

NumCells == {NaN, Num(2), Num(6)}
TextCells == {NaN, Str("A"), Str("B")}
RowSet == {<<a, b>> : a \in NumCells, b \in TextCells}

\* The columns of the tables handed to handle_missing_values
TableCols == <<ScoreCol, NameCol>>

Table(names, kinds, rows) == [names |-> names, kinds |-> kinds, rows |-> rows]

\* koi_score = [1, NaN, 3, NaN, 5]; kepler_name = [B, NaN, B, A]
ScoreScenario ==
    Table(<<ScoreCol>>, <<"number">>,
          <<(<<Num(2)>>), (<<NaN>>), (<<Num(6)>>), (<<NaN>>), (<<Num(10)>>)>>)
NameScenario ==
    Table(<<NameCol>>, <<"object">>,
          <<(<<Str("B")>>), (<<NaN>>), (<<Str("B")>>), (<<Str("A")>>)>>)

Tables ==
    {Table(TableCols, <<"number", "object">>, r) :
        r \in SeqsUpTo(RowSet, MaxRows)}
    \cup {ScoreScenario, NameScenario}

\* col_strategies: an ordered mapping, one entry per key
Entry(col, strategy, value) == [col |-> col, strategy |-> strategy, value |-> value]
EntriesFor(col) ==
    {Entry(col, s, NaN) :
        s \in {"drop_rows", "fill_with_value", "unknown_category", "mean", NoStrategy}}
    \cup {Entry(col, "fill_with_value", Str("Z"))}
TableConfigs ==
    {c \in SeqsUpTo(EntriesFor(ScoreCol) \cup EntriesFor(NameCol), Len(TableCols)) :
        \A j, k \in 1..Len(c) : j # k => c[j].col # c[k].col}
\* ... and configurations that also name a column the table does not have
Configs ==
    TableConfigs
    \cup {<<Entry(OtherCol, "drop_rows", NaN)>> \o c :
             c \in {d \in TableConfigs : Len(d) < Len(TableCols)}}

\* main's col_strategies
MainStrategies ==
    <<Entry(NameCol, "unknown_category", NaN), Entry(ScoreCol, "drop_rows", NaN)>>

\* File names: a.csv a.CSV a.Csv .csv a.txt a a.csv.txt a.txt.csv a. a.csvx acsv a.cs
FileNames ==
    { <<"a", ".", "c", "s", "v">>, <<"a", ".", "C", "S", "V">>,
      <<"a", ".", "C", "s", "v">>, <<".", "c", "s", "v">>,
      <<"a", ".", "t", "x", "t">>, <<"a">>,
      <<"a", ".", "c", "s", "v", ".", "t", "x", "t">>,
      <<"a", ".", "t", "x", "t", ".", "c", "s", "v">>,
      <<"a", ".">>, <<"a", ".", "c", "s", "v", "x">>,
      <<"a", "c", "s", "v">>, <<"a", ".", "c", "s">> }
Paths == {[name |-> n, exists |-> x] : n \in FileNames, x \in BOOLEAN}
MainPaths == {[name |-> <<"a", ".", "c", "s", "v">>, exists |-> x] : x \in BOOLEAN}

OneRow == <<(<<Num(2), Str("A")>>)>>
FileTables ==
    {NoTable, NameScenario, ScoreScenario,
     Table(<<ScoreCol, NameCol>>, <<"number", "object">>, OneRow)}

\* Column names to standardize
NameChars == {" ", "\t", "A", "a", "_"}
SecondNames == {<<"b">>, <<" ", "B", " ", "b">>, <<"a">>}
ExposureTime ==
    <<" ", "E", "x", "p", "o", "s", "u", "r", "e", " ", "T", "i", "m", "e", " ">>
NameTables ==
    {Table(<<n, m>>, <<"number", "object">>, OneRow) :
        n \in SeqsUpTo(NameChars, MaxNameLen) \cup {ExposureTime}, m \in SecondNames}

-----------------------------------------------------------------------------
\* The stages, as the caller sees them

\* LoadRawData with the exception swallowed: the run goes on
LoadRawDataSwallow ==
    /\ pc = "start"
    /\ trace' = Append(trace, "load")
    /\ pre' = NoTable
    /\ arg' = NoTable
    /\ pc' = "loaded"
    /\ df' = src
    /\ err' = IF LoadOutcome(path, src) = "table" THEN "none" ELSE LoadOutcome(path, src)
    /\ UNCHANGED <<path, src, cfg, disk>>

\* df = load_raw_data(path)
LoadRawData ==
    /\ pc = "start"
    /\ trace' = Append(trace, "load")
    /\ pre' = NoTable
    /\ arg' = NoTable
    /\ LET o == LoadOutcome(path, src)
       IN IF o = "table"
            THEN pc' = "loaded" /\ df' = src /\ err' = "none"
            ELSE pc' = "failed" /\ df' = df /\ err' = o
    /\ UNCHANGED <<path, src, cfg, disk>>

\* df = handle_missing_values(df, col_strategies=c)
Resolve(c) ==
    /\ pc = "loaded"
    /\ trace' = Append(trace, "resolve")
    /\ pre' = df
    /\ cfg' = c
    /\ \E strict \in BOOLEAN :
         LET r == HandleMissingValues(df, c, strict)
         IN /\ arg' = r.caller
            /\ IF r.raised
                 THEN pc' = "failed" /\ df' = r.caller /\ err' = "ValueError"
                 ELSE pc' = "resolved" /\ df' = r.out /\ err' = "none"
    /\ UNCHANGED <<path, src, disk>>

HandleMissingValuesCall == \E c \in Configs : Resolve(c)
MainHandleMissingValues == Resolve(MainStrategies)

\* df = remove_duplicates(df)
RemoveDuplicatesCall ==
    /\ pc = "resolved"
    /\ trace' = Append(trace, "dedup")
    /\ pre' = df
    /\ arg' = df
    /\ df' = RemoveDuplicates(df)
    /\ pc' = "deduped"
    /\ UNCHANGED <<path, src, cfg, err, disk>>

\* df = standardize_column_names(df): renames on the object it was given
StandardizeColumnNamesCall ==
    /\ pc = "deduped"
    /\ trace' = Append(trace, "names")
    /\ pre' = df
    /\ arg' = StandardizeColumnNames(df)
    /\ df' = StandardizeColumnNames(df)
    /\ pc' = "named"
    /\ UNCHANGED <<path, src, cfg, err, disk>>

\* save_clean_data(df, path): mkdir and to_csv may raise OSError
SaveCleanData ==
    /\ pc = "named"
    /\ trace' = Append(trace, "save")
    /\ pre' = df
    /\ arg' = df
    /\ \/ pc' = "saved" /\ disk' = df /\ err' = "none"
       \/ pc' = "failed" /\ disk' = disk /\ err' = "OSError"
    /\ UNCHANGED <<path, src, df, cfg>>

-----------------------------------------------------------------------------
\* main(): the five stages in sequence
Init ==
    /\ pc = "start"
    /\ path \in MainPaths
    /\ src \in Tables \cup {NoTable}
    /\ df = NoTable
    /\ pre = NoTable
    /\ arg = NoTable
    /\ cfg = <<>>
    /\ err = "none"
    /\ trace = <<>>
    /\ disk = NoTable

Next ==
    \/ LoadRawData
    \/ MainHandleMissingValues
    \/ RemoveDuplicatesCall
    \/ StandardizeColumnNamesCall
    \/ SaveCleanData

Spec == Init /\ [][Next]_vars

\* load_raw_data on any path
InitLoad ==
    /\ pc = "start"
    /\ path \in Paths
    /\ src \in FileTables
    /\ df = NoTable
    /\ pre = NoTable
    /\ arg = NoTable
    /\ cfg = <<>>
    /\ err = "none"
    /\ trace = <<>>
    /\ disk = NoTable

SpecLoad == InitLoad /\ [][LoadRawData]_vars

\* A stage called on a table t the caller holds
Holding(t, at, done) ==
    /\ pc = at
    /\ path \in {p \in MainPaths : p.exists}
    /\ src = t
    /\ df = t
    /\ pre = NoTable
    /\ arg = NoTable
    /\ cfg = <<>>
    /\ err = "none"
    /\ trace = done
    /\ disk = NoTable

\* handle_missing_values on any table and configuration
InitResolve == \E t \in Tables : Holding(t, "loaded", <<"load">>)
SpecResolve == InitResolve /\ [][HandleMissingValuesCall]_vars

\* remove_duplicates on any table
InitDedup == \E t \in Tables : Holding(t, "resolved", <<"load", "resolve">>)
SpecDedup == InitDedup /\ [][RemoveDuplicatesCall]_vars

\* standardize_column_names on any column names
InitNames ==
    \E t \in NameTables : Holding(t, "deduped", <<"load", "resolve", "dedup">>)
SpecNames == InitNames /\ [][StandardizeColumnNamesCall]_vars

-----------------------------------------------------------------------------
\* What the properties of handle_missing_values speak about

\* The strategy configured for a column, or "default" for a column not named
StrategyOf(name) ==
    IF InCfg(cfg, name)
      THEN cfg[CHOOSE k \in 1..Len(cfg) : cfg[k].col = name].strategy
      ELSE "default"
ValueOf(name) == cfg[CHOOSE k \in 1..Len(cfg) : cfg[k].col = name].value

\* The rows of the input that no drop_rows strategy removes
DropCols == {i \in 1..NCols(pre) : StrategyOf(pre.names[i]) = "drop_rows"}
Kept == SelectSeq(pre.rows, LAMBDA r : \A i \in DropCols : ~IsNa(r[i]))
\* The rows of K where column i is present, and where it is missing
PresentIn(K, i) == {r \in 1..Len(K) : ~IsNa(K[r][i])}
MissingIn(K, i) == {r \in 1..Len(K) : IsNa(K[r][i])}

Returned == pc = "resolved"
NoMissing(t, i) == \A r \in 1..Len(t.rows) : ~IsNa(t.rows[r][i])
SameShape(K) == Len(df.rows) = Len(K) /\ df.names = pre.names

\* C1 as stated: after handle_missing_values returns, every column that does
\* not use drop_rows and had a non-missing cell before the call has no
\* missing cell.
C1_Completeness ==
    Returned =>
        \A i \in 1..NCols(pre) :
            (/\ StrategyOf(pre.names[i]) # "drop_rows"
             /\ \E r \in 1..Len(pre.rows) : ~IsNa(pre.rows[r][i]))
            => NoMissing(df, i)

\* C1 amended: after handle_missing_values returns, a column has no missing
\* cell when it is configured with unknown_category, or with fill_with_value
\* and a value, or is not named in the configuration and has a non-missing
\* cell in a row that the drop_rows strategies leave.
C1_Covered(K, i) ==
    \/ StrategyOf(pre.names[i]) = "unknown_category"
    \/ StrategyOf(pre.names[i]) = "fill_with_value" /\ ~IsNa(ValueOf(pre.names[i]))
    \/ StrategyOf(pre.names[i]) = "default" /\ PresentIn(K, i) # {}

C1_CompletenessAmended ==
    Returned =>
        LET K == Kept
        IN \A i \in 1..NCols(pre) : C1_Covered(K, i) => NoMissing(df, i)

\* A configured column and a default-handled column both had cells to fill
C1_Witness ==
    /\ Returned
    /\ \E i, j \in 1..NCols(pre) :
         /\ StrategyOf(pre.names[i]) = "unknown_category"
         /\ StrategyOf(pre.names[j]) = "default"
         /\ PresentIn(Kept, j) # {}
         /\ MissingIn(Kept, i) # {}
         /\ MissingIn(Kept, j) # {}

\* x is the k-th smallest of the numeric cells at rows R of column i of K
IsKth(x, k, R, i, K) ==
    /\ Cardinality({r \in R : K[r][i].n < x}) < k
    /\ k <= Cardinality({r \in R : K[r][i].n <= x})

\* m is the median of those cells: the mean of the two middle ones (halves)
IsMedianOf(m, R, i, K) ==
    LET n == Cardinality(R)
    IN /\ m.t = "num"
       /\ \E lo, hi \in {K[r][i].n : r \in R} :
            /\ IsKth(lo, (n + 1) \div 2, R, i, K)
            /\ IsKth(hi, n \div 2 + 1, R, i, K)
            /\ 2 * m.n = lo + hi

\* C2: a numeric column not named in the configuration keeps its present
\* cells and gets every missing cell replaced by the median of its present
\* values over the rows left by the drop_rows strategies; score =
\* [1, missing, 3, missing, 5] with no configuration gives [1, 3, 3, 3, 5].
C2_MedianDefault ==
    Returned =>
        LET K == Kept
        IN /\ SameShape(K)
           /\ \A i \in 1..NCols(pre) :
                (pre.kinds[i] = "number" /\ StrategyOf(pre.names[i]) = "default") =>
                    LET R == PresentIn(K, i)
                    IN \A r \in 1..Len(K) :
                         IF ~IsNa(K[r][i]) THEN df.rows[r][i] = K[r][i]
                         ELSE R # {} => IsMedianOf(df.rows[r][i], R, i, K)
           /\ (pre = ScoreScenario /\ cfg = <<>>) =>
                 df.rows = <<(<<Num(2)>>), (<<Num(6)>>), (<<Num(6)>>),
                             (<<Num(6)>>), (<<Num(10)>>)>>

\* A drop_rows strategy removed a row whose value would have moved the median
C2_Witness ==
    /\ Returned
    /\ Len(Kept) < Len(pre.rows)
    /\ \E i \in 1..NCols(pre) :
         /\ pre.kinds[i] = "number"
         /\ StrategyOf(pre.names[i]) = "default"
         /\ MissingIn(Kept, i) # {}
         /\ \E r \in PresentIn(Kept, i) : \E q \in 1..Len(pre.rows) :
              ~IsNa(pre.rows[q][i]) /\ pre.rows[q][i] # Kept[r][i]

\* How often a value occurs at rows R of column i of K
Occurs(v, R, i, K) == Cardinality({r \in R : K[r][i] = v})

\* A fill_with_value entry without a value, for a column the table has
ValuelessFill(k) ==
    /\ cfg[k].strategy = "fill_with_value"
    /\ IsNa(cfg[k].value)
    /\ HasCol(pre, cfg[k].col)

\* C3: a non-numeric column not named in the configuration keeps its present
\* cells and gets every missing cell replaced by one most frequent present
\* value (over the rows left by step 1); with no present value the column is
\* left unchanged; and no error arises from it: the call fails only on a
\* fill_with_value entry that has no value.
C3_ModeDefault ==
    /\ Returned =>
         LET K == Kept
         IN /\ SameShape(K)
            /\ \A i \in 1..NCols(pre) :
                 (pre.kinds[i] = "object" /\ StrategyOf(pre.names[i]) = "default") =>
                     LET R == PresentIn(K, i)
                     IN /\ \A r \in R : df.rows[r][i] = K[r][i]
                        /\ R = {} => \A r \in 1..Len(K) : IsNa(df.rows[r][i])
                        /\ R # {} =>
                             \E p \in R :
                               /\ \A q \in R :
                                    Occurs(K[q][i], R, i, K) <= Occurs(K[p][i], R, i, K)
                               /\ \A r \in MissingIn(K, i) : df.rows[r][i] = K[p][i]
    /\ pc = "failed" => \E k \in 1..Len(cfg) : ValuelessFill(k)

\* The most frequent value is not the only one, and a cell is missing
C3_Witness ==
    /\ Returned
    /\ \E i \in 1..NCols(pre) :
         /\ pre.kinds[i] = "object"
         /\ StrategyOf(pre.names[i]) = "default"
         /\ MissingIn(Kept, i) # {}
         /\ \E p, q \in PresentIn(Kept, i) :
              Occurs(Kept[q][i], PresentIn(Kept, i), i, Kept)
                < Occurs(Kept[p][i], PresentIn(Kept, i), i, Kept)

\* C6 as stated: with a fill_with_value entry that omits the value, the call
\* does not raise; the column's missing cells stay missing and the call
\* returns.
C6_NoRaiseOnMissingValue ==
    (pc \in {"resolved", "failed"} /\ \E k \in 1..Len(cfg) : ValuelessFill(k)) =>
        /\ pc = "resolved"
        /\ err = "none"
        /\ SameShape(Kept)
        /\ \A k \in 1..Len(cfg) :
             ValuelessFill(k) =>
                 \A r \in 1..Len(Kept) :
                     df.rows[r][ColIndex(pre, cfg[k].col)]
                       = Kept[r][ColIndex(pre, cfg[k].col)]

Without(c, k) == SubSeq(c, 1, k - 1) \o SubSeq(c, k + 1, Len(c))

\* C7: an entry with an unrecognized or absent strategy never makes the call
\* raise and changes no other column: the call fails exactly when it fails
\* without the entry, every other column comes out as without the entry, and
\* the entry's own column is either skipped (its cells are those of the
\* input) or handled by the default.
C7_EntryIgnored(k) ==
    LET without == HandleMissingValues(pre, Without(cfg, k), err # "none")
        K == Kept
    IN /\ pc = "failed" <=> without.raised
       /\ Returned =>
            /\ SameShape(K)
            /\ Len(without.out.rows) = Len(df.rows)
            /\ \A i \in 1..NCols(pre) :
                 IF pre.names[i] # cfg[k].col
                   THEN Column(df, i) = Column(without.out, i)
                   ELSE \/ \A r \in 1..Len(K) : df.rows[r][i] = K[r][i]
                        \/ Column(df, i) = Column(without.out, i)

C7_UnrecognizedIgnored ==
    pc \in {"resolved", "failed"} =>
        \A k \in 1..Len(cfg) : cfg[k].strategy \notin Recognized => C7_EntryIgnored(k)

\* An unrecognized entry names a column with missing and present cells, next
\* to a column that the default fills
C7_Witness ==
    /\ Returned
    /\ \E k \in 1..Len(cfg) : \E i, j \in 1..NCols(pre) :
         /\ cfg[k].strategy \notin Recognized
         /\ pre.names[i] = cfg[k].col
         /\ MissingIn(Kept, i) # {}
         /\ PresentIn(Kept, i) # {}
         /\ StrategyOf(pre.names[j]) = "default"
         /\ MissingIn(Kept, j) # {}
         /\ PresentIn(Kept, j) # {}

\* C8 as stated: when handle_missing_values has returned, the table object
\* the caller passed in is as it was at the call.
C8_InputUnchanged == Returned => arg = pre

-----
\* remove_duplicates

\* The rows of the input that no earlier row equals
FirstOccurrences == {k \in 1..Len(pre.rows) : \A j \in 1..(k - 1) : pre.rows[j] # pre.rows[k]}

\* C4: remove_duplicates returns exactly the first occurrence of each distinct
\* row, in the input's order: a subsequence of the input, never longer than
\* it, that a second remove_duplicates leaves as it is.
C4_FirstOccurrencesKept ==
    pc = "deduped" =>
        /\ df.names = pre.names
        /\ df.kinds = pre.kinds
        /\ Len(df.rows) = Cardinality(FirstOccurrences)
        /\ \A k \in FirstOccurrences :
             df.rows[Cardinality({j \in FirstOccurrences : j <= k})] = pre.rows[k]
        /\ Len(df.rows) <= Len(pre.rows)
        /\ RemoveDuplicates(df) = df

\* A duplicate that is not next to its first occurrence was removed
C4_Witness ==
    /\ pc = "deduped"
    /\ Len(pre.rows) >= 3
    /\ pre.rows[1] = pre.rows[3]
    /\ pre.rows[1] # pre.rows[2]
    /\ Len(df.rows) = 2

-----------------------------------------------------------------------------
\* load_raw_data

CsvSpellings ==
    {<<".", c, s, v>> : c \in {"c", "C"}, s \in {"s", "S"}, v \in {"v", "V"}}

\* The file name ends in .csv, in any case, after a non-empty stem
HasCsvExtension(name) ==
    /\ Len(name) > 4
    /\ SubSeq(name, Len(name) - 3, Len(name)) \in CsvSpellings

\* C5: load_raw_data fails with the not-found error exactly when the path
\* does not exist, with the unsupported-format error exactly when the path
\* exists and its extension is not .csv in any case, and returns a table (the
\* file's) only for an existing path with that extension.
C5_LoadErrors ==
    pc # "start" =>
        /\ err = "FileNotFoundError" <=> ~path.exists
        /\ err = "ValueError" <=> (path.exists /\ ~HasCsvExtension(path.name))
        /\ pc = "loaded" =>
             path.exists /\ HasCsvExtension(path.name) /\ df = src /\ err = "none"

\* A file with an upper-case extension was loaded
C5_Witness ==
    /\ pc = "loaded"
    /\ Suffix(path.name) # CsvSuffix
    /\ df # NoTable

-----------------------------------------------------------------------------
\* standardize_column_names

CasePairs ==
    {<<"A", "a">>, <<"B", "b">>, <<"C", "c">>, <<"E", "e">>,
     <<"S", "s">>, <<"T", "t">>, <<"V", "v">>, <<"X", "x">>}

\* new is old without its leading and trailing whitespace, in lower case and
\* with an underscore for every space
IsStandardOf(new, old) ==
    \E a \in 0..Len(old) : \E b \in 0..(Len(old) - a) :
        LET core == SubSeq(old, a + 1, Len(old) - b)
        IN /\ \A j \in 1..a : old[j] \in Whitespace
           /\ \A j \in (Len(old) - b + 1)..Len(old) : old[j] \in Whitespace
           /\ core # <<>> => core[1] \notin Whitespace /\ core[Len(core)] \notin Whitespace
           /\ Len(new) = Len(core)
           /\ \A j \in 1..Len(core) :
                IF core[j] = " " THEN new[j] = "_"
                ELSE IF \E q \in CasePairs : q[1] = core[j]
                       THEN <<core[j], new[j]>> \in CasePairs
                ELSE new[j] = core[j]

ExposureTimeStandard ==
    <<"e", "x", "p", "o", "s", "u", "r", "e", "_", "t", "i", "m", "e">>

\* C9: standardize_column_names trims, lower-cases and underscores every
\* column name (" Exposure Time " becomes "exposure_time"), keeps the number
\* and order of the columns and all cells, and a second application gives
\* the same names.
C9_NamesStandardized ==
    pc = "named" =>
        /\ Len(df.names) = Len(pre.names)
        /\ \A i \in 1..Len(pre.names) : IsStandardOf(df.names[i], pre.names[i])
        /\ \A i \in 1..Len(pre.names) :
             pre.names[i] = ExposureTime => df.names[i] = ExposureTimeStandard
        /\ df.kinds = pre.kinds
        /\ df.rows = pre.rows
        /\ StandardizeColumnNames(df).names = df.names

\* A name with whitespace at both ends, an upper-case letter and a space inside
C9_Witness ==
    /\ pc = "named"
    /\ \E i \in 1..Len(pre.names) :
         /\ pre.names[i] = ExposureTime
         /\ df.names[i] # pre.names[i]

-----------------------------------------------------------------------------
\* main

StageOrder == <<"load", "resolve", "dedup", "names", "save">>

\* The stages started are a prefix of the five, an error ends the run at the
\* stage that raised it, and the output file exists only after all five.
C10_Inv ==
    /\ Len(trace) <= Len(StageOrder)
    /\ trace = SubSeq(StageOrder, 1, Len(trace))
    /\ err # "none" <=> pc = "failed"
    /\ pc # "failed" =>
         pc = <<"start", "loaded", "resolved", "deduped", "named", "saved">>[Len(trace) + 1]
    /\ disk # NoTable => trace = StageOrder /\ pc = "saved" /\ disk = df
    /\ pc = "saved" => disk = df

\* A step starts one stage, never after a failure, on the table the previous
\* stage returned.
C10_Step ==
    /\ pc # "failed"
    /\ trace' = Append(trace, StageOrder[Len(trace) + 1])
    /\ Len(trace) > 0 => pre' = df

\* C10: in a run of main the stages run at most once each and in the order
\* load, resolve, deduplicate, normalize names, persist, each on the table the
\* previous one returned; an error reaches the caller and no later stage
\* runs, so the output is written only after the four stages before it and
\* never after a load failure.
C10_PipelineOrder == [](C10_Inv) /\ [][C10_Step]_vars

\* A run that wrote its output after dropping a row and removing a duplicate
C10_Witness ==
    /\ pc = "saved"
    /\ Len(disk.rows) > 0
    /\ Len(disk.rows) + 1 < Len(src.rows)
====
